---- MODULE Spec2Model ----
(***************************************************************************)
(* A model of package rocket (the80srobot/gorocket): the Rocket integrator *)
(* (Accelerate, AccelerateOnProperTime, LorentzFactor, V) and the closed   *)
(* form conversions it is built on.                                        *)
(*                                                                         *)
(* Every quantity of the program is a Go float64.  The model computes with *)
(* IEEE-754 binary64 values exactly: a finite value is sign, exponent and  *)
(* a 53-bit significand, every operation is computed exactly on natural    *)
(* numbers and then rounded to nearest, ties to even, with overflow to     *)
(* Inf, gradual underflow and NaN.  TLC's integers are 32 bits wide, so a  *)
(* significand is held as a little-endian sequence of 14-bit limbs.        *)
(* The two zeros of binary64 are one value here: the program never         *)
(* divides by a zero whose sign could matter (every divisor that can be    *)
(* zero is a square root of 1 - x with x <= 1, which is +0), and Go's ==   *)
(* does not tell them apart.  The operations are rounded one by one, as    *)
(* the gc compiler does on amd64; builds that fuse x*y + z are not         *)
(* modelled.                                                               *)
(***************************************************************************)
EXTENDS Integers, Sequences, FiniteSets, TLC

(***************************************************************************)
(* Natural numbers wider than TLC's integers: little-endian sequences of   *)
(* limbs below Base (leading zero limbs are allowed).  Carries and borrows *)
(* are resolved in closed form (generate/propagate), so that no operation  *)
(* recurses over the limbs.                                                *)
(***************************************************************************)
LimbBits == 14
Base == 16384

Pow2Tab == << 1, 2, 4, 8, 16, 32, 64, 128, 256, 512, 1024, 2048, 4096, 8192, 16384 >>

Pow2(k) == Pow2Tab[k + 1]

Max(a, b) == IF a >= b THEN a ELSE b

Bool(b) == IF b THEN 1 ELSE 0

\* The sequence a function on 1..n stands for, with its elements computed.
Vec(f) == << >> \o f

\* r, once v has been computed.  TLC computes an argument where it is first
\* used, inside the computation that uses it; an operator that starts by
\* computing its arguments keeps the evaluation shallow.
Then(v, r) == IF v = v THEN r ELSE r

Limb(n, i) == IF i >= 1 /\ i <= Len(n) THEN n[i] ELSE 0

NIsZero(n) == \A i \in 1..Len(n) : n[i] = 0

\* The carry into limb i of s, whose limbs are at most 2 * Base - 2.
CarryIn(s, i) ==
  \E j \in 1..(i - 1) :
    s[j] >= Base /\ \A k \in (j + 1)..(i - 1) : s[k] = Base - 1

Resolve(s) ==
  Then(s, Vec([i \in 1..(Len(s) + 1) |-> (Limb(s, i) + Bool(CarryIn(s, i))) % Base]))

NAdd(a, b) ==
  Then(a, Then(b,
    Resolve(Vec([i \in 1..Max(Len(a), Len(b)) |-> Limb(a, i) + Limb(b, i)]))))

BorrowIn(a, b, i) ==
  \E j \in 1..(i - 1) :
    a[j] < Limb(b, j) /\ \A k \in (j + 1)..(i - 1) : a[k] <= Limb(b, k)

\* a - b for a >= b.
NSub(a, b) ==
  Then(a, Then(b,
    Vec([i \in 1..Len(a) |->
           (a[i] - Limb(b, i) - Bool(BorrowIn(a, b, i)) + Base) % Base])))

NGt(a, b) ==
  Then(a, Then(b,
    \E j \in 1..Max(Len(a), Len(b)) :
      /\ Limb(a, j) > Limb(b, j)
      /\ \A k \in (j + 1)..Max(Len(a), Len(b)) : Limb(a, k) = Limb(b, k)))

\* a * q for one limb q.
NMulSmall(a, q) ==
  Then(a, Then(q,
    Resolve(Vec([i \in 1..(Len(a) + 1) |->
                   ((Limb(a, i) * q) % Base) + ((Limb(a, i - 1) * q) \div Base)]))))

\* Column k of the schoolbook product of a by b, b of at most 4 limbs.
Col(a, b, k) ==
  Limb(a, k) * Limb(b, 1) + Limb(a, k - 1) * Limb(b, 2)
    + Limb(a, k - 2) * Limb(b, 3) + Limb(a, k - 3) * Limb(b, 4)

\* The columns c (below 2^30) with their carries moved up: limbs below 3 * Base.
NMulCarry1(c) ==
  Then(c, Vec([k \in 1..(Len(c) + 2) |->
                 (Limb(c, k) % Base) + ((Limb(c, k - 1) \div Base) % Base)
                   + (Limb(c, k - 2) \div (Base * Base))]))

\* The same once more: limbs at most Base + 1.
NMulCarry2(t) ==
  Then(t, Vec([k \in 1..(Len(t) + 1) |->
                 (Limb(t, k) % Base) + (Limb(t, k - 1) \div Base)]))

\* a * b for b of at most 4 limbs.
NMul(a, b) ==
  Then(a, Then(b,
    Resolve(NMulCarry2(NMulCarry1(Vec([k \in 1..(Len(a) + 4) |-> Col(a, b, k)]))))))

\* The low n limbs of a * 2^k.
NShl(a, k, n) ==
  Then(a, Then(k,
    Vec([i \in 1..n |->
           ((Limb(a, i - (k \div LimbBits)) * Pow2(k % LimbBits)) % Base)
             + (Limb(a, i - (k \div LimbBits) - 1) \div Pow2(LimbBits - (k % LimbBits)))])))

\* floor(a / 2^k).
NShr(a, k) ==
  Then(a, Then(k,
    Vec([i \in 1..Len(a) |->
           (Limb(a, i + (k \div LimbBits)) \div Pow2(k % LimbBits))
             + (Limb(a, i + (k \div LimbBits) + 1) % Pow2(k % LimbBits))
                 * Pow2(LimbBits - (k % LimbBits))])))

\* Bit i (from 0) of n.
NBit(n, i) == (Limb(n, (i \div LimbBits) + 1) \div Pow2(i % LimbBits)) % 2

\* Whether any of the bits 0..k-1 of n is set.
NLowBits(n, k) ==
  \/ \E i \in 1..Len(n) : i <= (k \div LimbBits) /\ n[i] # 0
  \/ (Limb(n, (k \div LimbBits) + 1) % Pow2(k % LimbBits)) # 0

IntBitLen(x) ==
  CHOOSE k \in 0..LimbBits : x < Pow2(k) /\ (k = 0 \/ x >= Pow2(k - 1))

\* The index of the highest limb of n that is not zero, 0 when n = 0.
TopLimb(n) ==
  CHOOSE i \in 0..Len(n) :
    (i = 0 \/ n[i] # 0) /\ \A j \in (i + 1)..Len(n) : n[j] = 0

NBitLenAt(n, i) == IF i = 0 THEN 0 ELSE (i - 1) * LimbBits + IntBitLen(n[i])

NBitLen(n) == Then(n, NBitLenAt(n, TopLimb(n)))

NIsOdd(n) == Limb(n, 1) % 2 = 1

(***************************************************************************)
(* Long division in base Base by a divisor d of 4 limbs whose top limb is  *)
(* at least Base/2: the quotient digit guessed from the two top limbs of   *)
(* the running remainder is at most 2 too large (Knuth, 4.3.1, Theorem B). *)
(***************************************************************************)
\* The digit q lowered until p = q * d is at most cur: <<q, cur - q * d>>.
RECURSIVE DivFix(_, _, _, _)
DivFix(cur, d, q, p) ==
  Then(p, IF NGt(p, cur) THEN DivFix(cur, d, q - 1, NSub(p, d))
          ELSE << q, SubSeq(NSub(cur, p), 1, 4) >>)

DivGuess(cur, d) ==
  Max(0, Base - 1 - Max(0, Base - 1 - ((cur[5] * Base + cur[4]) \div d[4])))

DivTry(cur, d, q) == Then(cur, Then(q, DivFix(cur, d, q, NMulSmall(d, q))))

\* <<q, r'>> with r * Base + x = q * d + r', for r < d and a limb x.
DivDigit(r, x, d) == DivTry(<< x >> \o r, d, DivGuess(<< x >> \o r, d))

\* The digits i, i-1, .. 1 of the quotient, after the digits q with remainder r.
RECURSIVE DivLoop(_, _, _, _, _)
DivNext(n, d, i, qr, q) ==
  Then(qr, DivLoop(n, d, i - 1, qr[2], << qr[1] >> \o q))

DivLoop(n, d, i, r, q) ==
  IF i = 0 THEN << q, r >> ELSE DivNext(n, d, i, DivDigit(r, n[i], d), q)

\* <<floor(n / d), n mod d>> for n of 8 limbs whose 3 top limbs are below d.
NDiv(n, d) == Then(n, Then(d, DivLoop(n, d, 5, << n[6], n[7], n[8], 0 >>, << >>)))

(***************************************************************************)
(* Integer square root of n in [2^110, 2^112), of 8 limbs: a guess from    *)
(* the two top limbs, rounded up, three Newton steps from above, and the   *)
(* last step down.                                                         *)
(***************************************************************************)
IntSqrtHi(t) ==
  CHOOSE h \in 0..127 : (h * 128) * (h * 128) <= t /\ ((h + 1) * 128) * ((h + 1) * 128) > t

IntSqrtLo(t, h) ==
  CHOOSE l \in 0..127 :
    (h * 128 + l) * (h * 128 + l) <= t /\ (h * 128 + l + 1) * (h * 128 + l + 1) > t

\* floor(sqrt(t)) for 0 <= t < 2^28.
IntSqrt(t) == 128 * IntSqrtHi(t) + IntSqrtLo(t, IntSqrtHi(t))

SqrtGuess(g) ==
  IF g >= Base THEN << Base - 1, Base - 1, Base - 1, Base - 1 >> ELSE << 0, 0, 0, g >>

SqrtHalf(x, qr) == Then(qr, SubSeq(NShr(NAdd(x, qr[1]), 1), 1, 4))

SqrtStep(n, x) == Then(x, SqrtHalf(x, NDiv(n, x)))

\* x lowered until x * x is at most n.
RECURSIVE SqrtFix(_, _)
SqrtFix(n, x) ==
  Then(x, IF NGt(NMul(x, x), n) THEN SqrtFix(n, NSub(x, << 1 >>)) ELSE x)

NSqrt(n) ==
  SqrtFix(n, SqrtStep(n, SqrtStep(n, SqrtStep(n,
                SqrtGuess(IntSqrt(n[8] * Base + n[7]) + 1)))))

(***************************************************************************)
(* float64.  A value is a record: k is "fin" (finite and not zero),        *)
(* "zero", "inf" or "nan"; a finite value is (-1)^s * m * 2^e with m a     *)
(* natural number of 4 limbs below 2^53, and either m >= 2^52 (normal) or  *)
(* e = EMin (subnormal), so that equal numbers are equal records.          *)
(***************************************************************************)
Prec == 53
EMin == -1074
EMax == 971

NoBits == << 0, 0, 0, 0 >>

NaN == [k |-> "nan", s |-> 0, e |-> 0, m |-> NoBits]

Zero == [k |-> "zero", s |-> 0, e |-> 0, m |-> NoBits]

Inf(s) == [k |-> "inf", s |-> s, e |-> 0, m |-> NoBits]

Fin(s, e, m) == [k |-> "fin", s |-> s, e |-> e, m |-> m]

Mant(n) == << Limb(n, 1), Limb(n, 2), Limb(n, 3), Limb(n, 4) >>

\* The rounded significand m (at most 2^53) at exponent e, as a value.
RoundPack(s, m, e) ==
  Then(m,
    IF NIsZero(m) THEN Zero
    ELSE IF e + Bool(NBitLen(m) > Prec) > EMax THEN Inf(s)
    ELSE Fin(s, e + Bool(NBitLen(m) > Prec), Mant(NShr(m, Bool(NBitLen(m) > Prec)))))

\* Round to nearest, ties to even: whether dropping the low sh bits of n rounds up.
RoundUp(n, sh, sticky) ==
  /\ NBit(n, sh - 1) = 1
  /\ (NLowBits(n, sh - 1) \/ sticky \/ NIsOdd(NShr(n, sh)))

RoundAt(s, n, e, sticky, e2) ==
  RoundPack(s,
            IF e2 <= e THEN NShl(n, e - e2, 4)
            ELSE NAdd(NShr(n, e2 - e), << Bool(RoundUp(n, e2 - e, sticky)) >>),
            e2)

\* The float64 nearest to (-1)^s * (n + f) * 2^e, where 0 <= f < 1 and f > 0
\* exactly if sticky.
Round(s, n, e, sticky) ==
  Then(n, Then(sticky,
    IF NIsZero(n) THEN Zero
    ELSE RoundAt(s, n, e, sticky, Max(e + NBitLen(n) - Prec, EMin))))

\* float64(i) for an integer i of TLC.
FromNat(s, i) ==
  Round(s, << i % Base, (i \div Base) % Base, i \div (Base * Base) >>, 0, FALSE)

FromInt(i) == IF i >= 0 THEN FromNat(0, i) ELSE FromNat(1, 0 - i)

Xor(a, b) == (a + b) % 2

FNeg(x) == IF x.k \in {"fin", "inf"} THEN [x EXCEPT !.s = 1 - x.s] ELSE x

\* A finite value with its significand moved up to exactly 53 bits.
NormM(x) == NShl(x.m, Prec - NBitLen(x.m), 4)

NormE(x) == x.e - (Prec - NBitLen(x.m))

\* x * y
FMul(x, y) ==
      IF x.k = "nan" \/ y.k = "nan" THEN NaN
    ELSE IF x.k = "inf" \/ y.k = "inf"
         THEN (IF x.k = "zero" \/ y.k = "zero" THEN NaN ELSE Inf(Xor(x.s, y.s)))
    ELSE IF x.k = "zero" \/ y.k = "zero" THEN Zero
    ELSE Round(Xor(x.s, y.s), NMul(x.m, y.m), x.e + y.e, FALSE)

FDivRound(s, qr, e) == Then(qr, Round(s, qr[1], e, ~NIsZero(qr[2])))

\* x / y; a finite value over zero is an infinity (Go does not panic on floats).
FDiv(x, y) ==
      IF x.k = "nan" \/ y.k = "nan" THEN NaN
    ELSE IF x.k = "inf" THEN (IF y.k = "inf" THEN NaN ELSE Inf(Xor(x.s, y.s)))
    ELSE IF y.k = "inf" THEN Zero
    ELSE IF y.k = "zero" THEN (IF x.k = "zero" THEN NaN ELSE Inf(x.s))
    ELSE IF x.k = "zero" THEN Zero
    ELSE FDivRound(Xor(x.s, y.s),
                   NDiv(NShl(NormM(x), 59, 8), NShl(NormM(y), 3, 4)),
                   NormE(x) - NormE(y) - 56)

FSqrtRound(n, root, e) == Then(root, Round(0, root, e, NGt(n, NMul(root, root))))

FSqrtOf(n, e) == Then(n, FSqrtRound(n, NSqrt(n), e))

FSqrtShift(x) == IF (NormE(x) - 58) % 2 = 0 THEN 58 ELSE 59

\* math.Sqrt(x)
FSqrt(x) ==
      IF x.k = "nan" THEN NaN
    ELSE IF x.k = "zero" THEN Zero
    ELSE IF x.s = 1 THEN NaN
    ELSE IF x.k = "inf" THEN x
    ELSE FSqrtOf(NShl(NormM(x), FSqrtShift(x), 8), (NormE(x) - FSqrtShift(x)) \div 2)

\* (-1)^sx * nx + (-1)^sy * ny, times 2^e, rounded.
FAddAligned(sx, nx, sy, ny, e) ==
  Then(nx,
    Round(IF sx = sy \/ NGt(nx, ny) THEN sx ELSE sy,
          IF sx = sy THEN NAdd(nx, ny)
          ELSE IF NGt(nx, ny) THEN NSub(nx, ny)
          ELSE NSub(ny, nx),
          e, FALSE))

\* x + y for finite x, y with x.e >= y.e.  When the exponents are 55 or more apart
\* y is below a quarter of the last place of x, and the sum rounds to x.
FAddOrd(x, y) ==
  IF x.e - y.e >= 55 THEN x
  ELSE FAddAligned(x.s, NShl(x.m, x.e - y.e, 8), y.s, y.m, y.e)

\* x + y
FAdd(x, y) ==
      IF x.k = "nan" \/ y.k = "nan" THEN NaN
    ELSE IF x.k = "inf" THEN (IF y.k = "inf" /\ y.s # x.s THEN NaN ELSE x)
    ELSE IF y.k = "inf" THEN y
    ELSE IF x.k = "zero" THEN y
    ELSE IF y.k = "zero" THEN x
    ELSE FAddOrd(IF x.e >= y.e THEN x ELSE y, IF x.e >= y.e THEN y ELSE x)

\* x - y
FSub(x, y) == FAdd(x, FNeg(y))

\* |x| < |y| for x, y not NaN.
MagLt(x, y) ==
  IF x.k = "inf" THEN FALSE
  ELSE IF y.k = "inf" THEN TRUE
  ELSE IF y.k = "zero" THEN FALSE
  ELSE IF x.k = "zero" THEN TRUE
  ELSE IF x.e # y.e THEN x.e < y.e
  ELSE NGt(y.m, x.m)

\* Go's x < y, x == y, x <= y, x > y, x >= y: all false when x or y is NaN.
FLt(x, y) ==
  IF x.k = "nan" \/ y.k = "nan" THEN FALSE
  ELSE IF x.s = 0 /\ y.s = 0 THEN MagLt(x, y)
  ELSE IF x.s = 1 /\ y.s = 1 THEN MagLt(y, x)
  ELSE x.s = 1

FEq(x, y) == x.k # "nan" /\ y.k # "nan" /\ x = y

FLe(x, y) == FLt(x, y) \/ FEq(x, y)

FGt(x, y) == FLt(y, x)

FGe(x, y) == FLe(y, x)

FAbs(x) == IF x.k \in {"fin", "inf"} THEN [x EXCEPT !.s = 0] ELSE x

\* Neither an infinity nor NaN.
IsFinite(x) == x.k \in {"fin", "zero"}

\* The largest float64 below a finite x > 0 that is not the smallest subnormal.
Below(x) ==
  IF x.e > EMin /\ NBitLen(NSub(x.m, << 1 >>)) < Prec
  THEN Fin(x.s, x.e - 1, Mant(NSub(NShl(x.m, 1, 4), << 1 >>)))
  ELSE Fin(x.s, x.e, Mant(NSub(x.m, << 1 >>)))

(***************************************************************************)
(* The constants of rocket.go.  An untyped constant expression of Go is    *)
(* computed exactly and rounded once where it meets a float64: C*C, G.     *)
(***************************************************************************)
One == FromInt(1)

C == FromInt(299792458)

CC == FMul(C, C)

Year == FromInt(3600 * 24 * 365)

G == FDiv(FromInt(98), FromInt(10))

(***************************************************************************)
(* vector.go                                                               *)
(***************************************************************************)
Vector3(x, y, z) == [x |-> x, y |-> y, z |-> z]

Magnitude(v) == FSqrt(FAdd(FAdd(FMul(v.x, v.x), FMul(v.y, v.y)), FMul(v.z, v.z)))

Add(v, o) == Vector3(FAdd(v.x, o.x), FAdd(v.y, o.y), FAdd(v.z, o.z))

MultiplyByScalar(v, f) == Vector3(FMul(v.x, f), FMul(v.y, f), FMul(v.z, f))

(***************************************************************************)
(* rocket.go: the closed forms.                                            *)
(***************************************************************************)
VelocityOf(at) == FDiv(at, FSqrt(FAdd(One, FMul(FDiv(at, C), FDiv(at, C)))))

\* func Velocity(a, t float64): at := a * t, then the quotient.
Velocity(a, t) == VelocityOf(FMul(a, t))

\* ProperVelocity with math.Sqrt left out.
ProperVelocityNoRoot(v) == FDiv(v, FSub(One, FMul(FDiv(v, C), FDiv(v, C))))

ProperVelocityOf(v, q) == FDiv(v, FSqrt(FSub(One, FMul(q, q))))

\* func ProperVelocity(v float64): r := v / C, then the quotient.
ProperVelocity(v) == ProperVelocityOf(v, FDiv(v, C))

\* func CoordinateVelocity(w float64)
CoordinateVelocity(w) == FDiv(FMul(C, w), FSqrt(FAdd(CC, FMul(w, w))))

(***************************************************************************)
(* rocket.go: the Rocket.  A Rocket is a record of W (a Vector3), T, Tau.  *)
(***************************************************************************)
Rocket(w, t, tau) == [W |-> w, T |-> t, Tau |-> tau]

\* func (r *Rocket) V()
Rocket_V(r) == CoordinateVelocity(Magnitude(r.W))

\* 1 / math.Sqrt(1-(v*v)/(C*C))
LorentzFactorOf(v) == FDiv(One, FSqrt(FSub(One, FDiv(FMul(v, v), CC))))

\* The factor with the quotient left out: math.Sqrt(1-(v*v)/(C*C)).
Rocket_LorentzFactorInverted(r) ==
  FSqrt(FSub(One, FDiv(FMul(Rocket_V(r), Rocket_V(r)), CC)))

\* func (r *Rocket) LorentzFactor(): v := r.V(), then the quotient.
Rocket_LorentzFactor(r) == LorentzFactorOf(Rocket_V(r))

\* The fields of a Rocket after a step that made its proper velocity w and
\* added dT to r.T and dTau to r.Tau, with dT and dTau.
Stepped(r, w, dT, dTau) ==
  Then(w, Then(dT, Then(dTau,
    [W |-> w, T |-> FAdd(r.T, dT), Tau |-> FAdd(r.Tau, dTau), dT |-> dT, dTau |-> dTau])))

\* r.W.x += a.x * dt; r.W.y += a.y * dt; r.W.z += a.z * dt
Accelerated(r, a, dt) ==
  Then(dt, Vector3(FAdd(r.W.x, FMul(a.x, dt)),
                   FAdd(r.W.y, FMul(a.y, dt)),
                   FAdd(r.W.z, FMul(a.z, dt))))

AccelerateAt(r, dt, w) == Stepped(r, w, dt, FDiv(dt, Rocket_LorentzFactor(Rocket(w, FAdd(r.T, dt), r.Tau))))

\* Accelerate with the Lorentz factor read before W is updated.
Rocket_AccelerateStale(r, a, dt) ==
  Stepped(r, Accelerated(r, a, dt), dt, FDiv(dt, Rocket_LorentzFactor(r)))

\* func (r *Rocket) Accelerate(a Vector3, dt float64): the fields of r after the
\* call, with the amounts the call added to T (dT) and to Tau (dTau).  The
\* Lorentz factor is read after W has been updated.
Rocket_Accelerate(r, a, dt) == AccelerateAt(r, dt, Accelerated(r, a, dt))

AccelerateOnProperTimeBy(r, a, dtau, dt) == Stepped(r, Accelerated(r, a, dt), dt, dtau)

\* AccelerateOnProperTime with W advanced by a * dtau in place of a * dt.
Rocket_AccelerateOnProperTimeSlowW(r, a, dtau) ==
  Stepped(r, Accelerated(r, a, dtau), FMul(Rocket_LorentzFactor(r), dtau), dtau)

\* AccelerateOnProperTime with dt := dtau.
Rocket_AccelerateOnProperTimeUnscaled(r, a, dtau) == AccelerateOnProperTimeBy(r, a, dtau, dtau)

\* func (r *Rocket) AccelerateOnProperTime(a Vector3, dtau float64): likewise.
\* dt := r.LorentzFactor() * dtau is computed before W is updated.
Rocket_AccelerateOnProperTime(r, a, dtau) ==
  AccelerateOnProperTimeBy(r, a, dtau, FMul(Rocket_LorentzFactor(r), dtau))

(***************************************************************************)
(* rocket_test.go                                                          *)
(***************************************************************************)
\* func approximately(x, y float64) bool, with const tolerance = 0.01
approximately(x, y) ==
  /\ FGt(x, FMul(y, FDiv(FromInt(99), FromInt(100))))
  /\ FLt(x, FMul(y, FDiv(FromInt(101), FromInt(100))))

Tolerance == FDiv(One, FromInt(100))

\* |x - y| <= tolerance * |y|
Within(x, y) == FLe(FAbs(FSub(x, y)), FMul(Tolerance, FAbs(y)))

\* The v column of knownValues.
KnownVelocities ==
  { FDiv(FMul(FromInt(77), C), FromInt(100)),
    FDiv(FMul(FromInt(97), C), FromInt(100)),
    FDiv(FMul(FromInt(99993), C), FromInt(100000)),
    FDiv(FMul(FromInt(9999998), C), FromInt(10000000)),
    FSub(C, FDiv(FMul(FromInt(4), C), FMul(FromInt(100000), FromInt(1000000)))) }

(***************************************************************************)
(* The state machine.  rocket is the Rocket under test; last records the   *)
(* last call (its name, arguments, the Rocket before it and what it added  *)
(* to T and Tau); hist records whether every call so far used the same     *)
(* acceleration and whether every time delta so far was non-negative;      *)
(* conv is a velocity taken through ProperVelocity and CoordinateVelocity. *)
(***************************************************************************)
VARIABLES rocket, last, steps, hist, conv

vars == << rocket, last, steps, hist, conv >>

MaxSteps == 2
Grid == 64

ZeroVector == Vector3(Zero, Zero, Zero)

\* No acceleration; 1 g along x, as in the tests; and about 1.6 g with a
\* component along each axis, one of them negative.
Accelerations ==
  { ZeroVector,
    Vector3(G, Zero, Zero),
    Vector3(FNeg(G), FromInt(13), FromInt(2)) }

\* Two years (about the t of the second row of knownValues), and a thousand
\* million years: after these the float64 V() is C at 1 g along x, and the
\* float64 above C with the third acceleration.
Span == FMul(FromInt(2), Year)

Eon == FMul(FromInt(1000000000), Year)

Deltas == { Zero, Span, FNeg(Span), Eon }

ZeroRocket == Rocket(ZeroVector, Zero, Zero)

NoCall == [op |-> "none", a |-> ZeroVector, d |-> Zero, r |-> ZeroRocket,
           dT |-> Zero, dTau |-> Zero]

NoConv == [phase |-> "idle", v |-> Zero, w |-> Zero, u |-> Zero]

Init ==
  /\ rocket = ZeroRocket
  /\ last = NoCall
  /\ steps = 0
  /\ hist = [use |-> "none", a |-> ZeroVector, fwd |-> TRUE]
  /\ conv = NoConv

Called(op, a, d, o) ==
  /\ rocket' = Rocket(o.W, o.T, o.Tau)
  /\ last' = [op |-> op, a |-> a, d |-> d, r |-> rocket, dT |-> o.dT, dTau |-> o.dTau]
  /\ steps' = steps + 1
  /\ hist' = [use |-> IF hist.use = "none" \/ (hist.use = "same" /\ hist.a = a)
                      THEN "same" ELSE "mixed",
              a |-> IF hist.use = "none" THEN a ELSE hist.a,
              fwd |-> hist.fwd /\ FGe(d, Zero)]
  /\ UNCHANGED conv

Accelerate(a, dt) ==
  /\ steps < MaxSteps
  /\ Called("Accelerate", a, dt, Rocket_Accelerate(rocket, a, dt))

AccelerateOnProperTime(a, dtau) ==
  /\ steps < MaxSteps
  /\ Called("AccelerateOnProperTime", a, dtau, Rocket_AccelerateOnProperTime(rocket, a, dtau))

Next ==
  \E a \in Accelerations, d \in Deltas :
    \/ Accelerate(a, d)
    \/ AccelerateOnProperTime(a, d)

Spec == Init /\ [][Next]_vars

(***************************************************************************)
(* The conversions alone: a coordinate velocity v with 0 < v < C is taken  *)
(* to a proper velocity and back.                                          *)
(***************************************************************************)
MinSubnormal == Fin(0, EMin, << 1, 0, 0, 0 >>)

MinNormal == Fin(0, EMin, << 0, 0, 0, 1024 >>)

Velocities ==
  { FDiv(FMul(C, FromInt(j)), FromInt(Grid)) : j \in 1..(Grid - 1) }
    \cup KnownVelocities
    \cup { Below(C), Below(Below(C)), One, MinNormal, Below(MinNormal), MinSubnormal }

InitConv ==
  /\ rocket = ZeroRocket
  /\ last = NoCall
  /\ steps = 0
  /\ hist = [use |-> "none", a |-> ZeroVector, fwd |-> TRUE]
  /\ conv \in { [phase |-> "v", v |-> v, w |-> Zero, u |-> Zero] : v \in Velocities }

ToProper ==
  /\ conv.phase = "v"
  /\ conv' = [conv EXCEPT !.phase = "w", !.w = ProperVelocity(conv.v)]
  /\ UNCHANGED << rocket, last, steps, hist >>

ToCoordinate ==
  /\ conv.phase = "w"
  /\ conv' = [conv EXCEPT !.phase = "u", !.u = CoordinateVelocity(conv.w)]
  /\ UNCHANGED << rocket, last, steps, hist >>

NextConv == ToProper \/ ToCoordinate

SpecConv == InitConv /\ [][NextConv]_vars

(***************************************************************************)
(* The claims.  In a state after a call, last.r is the Rocket before the   *)
(* call, last.dT and last.dTau are the values the call added to T and to   *)
(* Tau (the increments), and rocket is the Rocket after it.                *)
(***************************************************************************)

C2_MonotonicTime ==
  (last.op # "none" /\ hist.fwd) =>
    /\ FLe(last.r.T, rocket.T)
    /\ FLe(last.r.Tau, rocket.Tau)

\* C3: in every reachable state the coordinate speed V() is strictly below C.
C3_Subluminal == FLt(Rocket_V(rocket), C)

\* C4: Accelerate(a, dt) makes W' = W + a*dt componentwise, T' = T + dt and
\* Tau' = Tau + dt / gamma', gamma' the Lorentz factor of the Rocket after the
\* update of W.
C4_AccelerateTransition ==
  last.op = "Accelerate" =>
    /\ rocket.W = Add(last.r.W, MultiplyByScalar(last.a, last.d))
    /\ rocket.T = FAdd(last.r.T, last.d)
    /\ rocket.Tau = FAdd(last.r.Tau, FDiv(last.d, Rocket_LorentzFactor(rocket)))

C4_FactorChanged ==
  /\ last.op = "Accelerate"
  /\ FGt(last.d, Zero)
  /\ IsFinite(Rocket_LorentzFactor(rocket))
  /\ FGt(Rocket_LorentzFactor(rocket), Rocket_LorentzFactor(last.r))

\* The proper velocity and the coordinate time of the Rocket are those of o.
SameCourse(o) == rocket.W = o.W /\ rocket.T = o.T

\* C5: AccelerateOnProperTime(a, dtau) makes dt = gamma * dtau with gamma the
\* Lorentz factor of the Rocket before the call, W' = W + a*dt, T' = T + dt and
\* Tau' = Tau + dtau; its W' and T' are those of Accelerate(a, gamma*dtau) from
\* the same Rocket.
C5_ProperTimeTransition ==
  last.op = "AccelerateOnProperTime" =>
    /\ last.dT = FMul(Rocket_LorentzFactor(last.r), last.d)
    /\ rocket.W = Add(last.r.W, MultiplyByScalar(last.a, last.dT))
    /\ rocket.T = FAdd(last.r.T, last.dT)
    /\ rocket.Tau = FAdd(last.r.Tau, last.d)
    /\ SameCourse(Rocket_Accelerate(last.r, last.a, last.dT))

C5_Scaled ==
  /\ last.op = "AccelerateOnProperTime"
  /\ last.a # ZeroVector
  /\ FGt(last.d, Zero)
  /\ IsFinite(last.dT)
  /\ FGt(last.dT, last.d)

\* C6: a call of either operation with the zero vector and the time delta 0
\* leaves W, T and Tau unchanged.
C6_ZeroStep ==
  (last.op # "none" /\ last.a = ZeroVector /\ last.d = Zero) => rocket = last.r

\* C7: a call of either operation with the zero vector leaves W unchanged,
\* whatever the time delta.
C7_Coasting == (last.op # "none" /\ last.a = ZeroVector) => rocket.W = last.r.W

\* C9: a coordinate velocity v with 0 < v < C, taken through ProperVelocity and
\* then CoordinateVelocity, comes back within 1% of v; and it passes the
\* comparison of the tests when v is a normal float64.
C9_RoundTrip ==
  conv.phase = "u" =>
    /\ Within(conv.u, conv.v)
    /\ FGe(conv.v, MinNormal) => approximately(conv.u, conv.v)

C9_NearLight ==
  /\ conv.phase = "u"
  /\ conv.v = Below(C)
  /\ FGt(conv.w, C)

\* x and y are the same float64 value, or x is within 1% of y.
Close(x, y) == x = y \/ Within(x, y)

\* v is close to the speed that the acceleration m reaches in the time T of the
\* Rocket, by CoordinateVelocity and by Velocity.
CloseSpeed(v, m) ==
  /\ Close(v, CoordinateVelocity(FMul(m, rocket.T)))
  /\ Close(v, Velocity(m, rocket.T))

====
